---- MODULE Spec2Model ----
(***************************************************************************)
(* Model of Week4-6-ShapeComplete.cpp (ShapesApp): the frame-resource ring *)
(* synchronised with the GPU through one fence, the error path through     *)
(* WinMain, the orbit camera driven by OnMouseMove, the shared vertex and  *)
(* index buffers built by BuildShapeGeometry, the render items and the     *)
(* layout of the constant-buffer descriptor heap.                          *)
(*                                                                         *)
(* The CPU thread is a program counter (pc) walking WinMain -> Initialize  *)
(* -> Run { Update; Draw }.  The GPU is a consumer of the command queue:   *)
(* it pops command lists and fence signals in FIFO order.  Angles are      *)
(* fixed-point micro-radians and the radius is counted in units of 0.05.   *)
(***************************************************************************)
EXTENDS Integers, Sequences, FiniteSets, TLC

\* ------------------------------------------------------------------ bounds
MaxFrames == 5          \* Updates started by the Run loop
MaxInitFence == 1       \* fence value left by D3DApp before ShapesApp::Initialize
NumRitems == 2          \* render items built by BuildRenderItems
MaxMouseCell == 1       \* mouse coordinates are 0..MaxMouseCell cells
MouseStep == 150        \* pixels per cell
MaxThetaDrift == 1      \* cells mTheta may drift from its initial value
MaxMeshSize == 2        \* triangles of a generated mesh

\* ---------------------------------------------------------- program constants
gNumFrameResources == 3
Pi == 3141593           \* XM_PI / MathHelper::Pi in micro-radians
PixelAngle == 4363      \* XMConvertToRadians(0.25f) in micro-radians
RadiusScale == 20       \* 1 / 0.05f : radius units per scene unit
PhiMin == 100000        \* 0.1f
PhiMax == Pi - 100000   \* MathHelper::Pi - 0.1f
RadiusMin == 5 * RadiusScale
RadiusMax == 150 * RadiusScale
MK_LBUTTON == 1
MK_RBUTTON == 2

VARIABLES
    pc,                      \* position of the CPU thread
    mFrameResources,         \* sequence of frame resources (slot i is element i+1)
    mCurrFrameResource,      \* slot pointed to, -1 = nullptr
    mCurrFrameResourceIndex,
    mCurrentFence,           \* D3DApp::mCurrentFence
    mIsWireframe,
    mAllRitems,              \* sequence of render items
    mCommandList,            \* what the command list recorded for this frame
    queue,                   \* command queue: command lists and fence signals
    completed,               \* mFence->GetCompletedValue()
    gpuLost,                 \* the GPU no longer executes anything
    frames,                  \* frames submitted whose fence value is not reached
    frameCount,              \* frames submitted by ExecuteCommandLists
    updateCount,             \* Updates started
    selHist,                 \* the slots selected by the last three Updates
    stamps,                  \* every fence value ever stamped on a slot
    apiFailed,               \* some graphics-API call has returned a failure
    raised,                  \* a DxException has been thrown
    msgBoxes,                \* message boxes shown by WinMain
    exitCode,                \* WinMain's return value, -1 while running
    mTheta, mPhi, mRadius,   \* camera
    mLastMousePos,
    keyPolled,               \* what GetAsyncKeyState('1') returned to the last Update
    submits,                 \* every frame submitted: its slot and its stamp (0 = none yet)
    evt,                     \* the last mouse message handled
    meshData,                \* the meshes GeometryGenerator returns
    mGeometries,             \* mGeometries["shapeGeo"], <<>> before it is built
    mOpaqueRitems,           \* positions in mAllRitems
    mCbvHeap,                \* descriptor heap: the views created at each index
    mPassCbvOffset

frameVars == <<mFrameResources, mCurrFrameResource, mCurrFrameResourceIndex,
               mCurrentFence, mIsWireframe, mAllRitems, mCommandList>>
gpuVars   == <<queue, completed, gpuLost>>
obsVars   == <<frames, frameCount, updateCount, selHist, stamps, keyPolled, submits>>
sceneVars == <<meshData, mGeometries, mOpaqueRitems, mCbvHeap, mPassCbvOffset>>
errVars   == <<apiFailed, raised, msgBoxes, exitCode>>
camVars   == <<mTheta, mPhi, mRadius, mLastMousePos, evt>>
vars      == <<pc, frameVars, gpuVars, obsVars, errVars, camVars, sceneVars>>

Slots == 0 .. (gNumFrameResources - 1)
MouseCoords == {c * MouseStep : c \in 0 .. MaxMouseCell}

\* slot i of the ring
FR(i) == mFrameResources[i + 1]

Last(s) == s[Len(s)]

\* ------------------------------------------------------------ pure helpers

\* FrameResource::FrameResource(device, passCount, objectCount): Fence = 0,
\* an object buffer of objectCount elements (ObjectCB[e] = number of CopyData
\* calls on element e) and a pass buffer (PassCB = number of the Update whose
\* pass constants it holds, 0 = none).
NewFrameResource(objCount) ==
    [Fence |-> 0, ObjectCB |-> [e \in 0 .. objCount - 1 |-> 0], PassCB |-> 0]

\* BuildFrameResources: gNumFrameResources push_backs
BuildFrameResources(objCount) ==
    [i \in 1 .. gNumFrameResources |-> NewFrameResource(objCount)]

\* ---------------------------------------------------- BuildShapeGeometry
\* lines 542-551: the meshes in the order they are generated
MeshNames == <<"box", "grid", "sphere", "cylinder", "cone", "torus",
               "pyramid", "wedge", "diamond", "triPrism">>
MeshSet == {MeshNames[j] : j \in DOMAIN MeshNames}

\* GeometryGenerator::Create*: a mesh of s triangles drawn as a triangle list
\* (a fan of s triangles has s + 2 vertices and 3 * s indices)
CreateMesh(s) == [nv |-> s + 2, ni |-> 3 * s]
AllMeshData == [MeshSet -> {CreateMesh(s) : s \in 1 .. MaxMeshSize}]
SampleMeshData ==
    [n \in MeshSet |->
        CreateMesh(1 + ((CHOOSE j \in DOMAIN MeshNames : MeshNames[j] = n) % MaxMeshSize))]

\* lines 556-580: the order in which the offsets are chained
OffsetOrder == MeshNames
\* lines 655-721: the order of the vertex copy loops
VertexCopyOrder == MeshNames
\* lines 724-734: the order of the indices.insert calls
IndexInsertOrder_ConeTorusSwapped ==
    <<"box", "grid", "sphere", "cylinder", "torus", "cone",
      "pyramid", "wedge", "diamond", "triPrism">>
IndexInsertOrder == MeshNames

\* lines 556-566: xVertexOffset = previous offset + previous Vertices.size()
RECURSIVE VertexOffsetAt(_, _)
VertexOffsetAt(meshes, j) ==
    IF j = 1 THEN 0
    ELSE VertexOffsetAt(meshes, j - 1) + meshes[OffsetOrder[j - 1]].nv

\* lines 570-580: xIndexOffset = previous offset + previous Indices32.size()
RECURSIVE IndexOffsetAt_FromSelf(_, _)
IndexOffsetAt_FromSelf(meshes, j) ==
    IF j = 1 THEN 0
    ELSE IndexOffsetAt_FromSelf(meshes, j - 1) + meshes[OffsetOrder[j]].ni
RECURSIVE IndexOffsetAt(_, _)
IndexOffsetAt(meshes, j) ==
    IF j = 1 THEN 0
    ELSE IndexOffsetAt(meshes, j - 1) + meshes[OffsetOrder[j - 1]].ni

\* lines 586-633: the SubmeshGeometry of the j-th mesh of the offset chain
Submesh(meshes, j) ==
    [IndexCount         |-> meshes[OffsetOrder[j]].ni,
     StartIndexLocation |-> IndexOffsetAt(meshes, j),
     BaseVertexLocation |-> VertexOffsetAt(meshes, j)]

\* lines 639-649: the declared length of the vertex array
RECURSIVE SumVertices(_, _)
SumVertices(meshes, j) ==
    IF j = 0 THEN 0 ELSE SumVertices(meshes, j - 1) + meshes[MeshNames[j]].nv
TotalVertexCount_LastForgotten(meshes) == SumVertices(meshes, Len(MeshNames) - 1)
TotalVertexCount(meshes) == SumVertices(meshes, Len(MeshNames))

\* lines 655-721: the copy loops, vertices[k] = mesh.Vertices[i] with ++i, ++k;
\* the result is the sequence of writes in the order of k
RECURSIVE CopyVertices(_, _)
CopyVertices(meshes, j) ==
    IF j = 0 THEN <<>>
    ELSE CopyVertices(meshes, j - 1) \o
         [i \in 1 .. meshes[VertexCopyOrder[j]].nv |->
             [mesh |-> VertexCopyOrder[j], i |-> i - 1]]

\* MeshData::GetIndices16: every 32-bit index narrowed to 16 bits (index i of
\* a fan refers to vertex i mod nv of its own mesh)
GetIndices16(meshes, n) ==
    [i \in 1 .. meshes[n].ni |->
        [mesh |-> n, i |-> i - 1, val |-> ((i - 1) % meshes[n].nv) % 65536]]

\* lines 724-734: indices.insert(indices.end(), ...) mesh after mesh
RECURSIVE ConcatIndices(_, _)
ConcatIndices(meshes, j) ==
    IF j = 0 THEN <<>>
    ELSE ConcatIndices(meshes, j - 1) \o GetIndices16(meshes, IndexInsertOrder[j])

Unset == [mesh |-> "none", i |-> -1]

\* lines 540-774: the MeshGeometry stored as mGeometries["shapeGeo"].
\* vertices is created with totalVertexCount default elements; a write at
\* k >= totalVertexCount is outside the array (Overrun).
BuildShapeGeometry(meshes) ==
    LET total  == TotalVertexCount(meshes)
        writes == CopyVertices(meshes, Len(VertexCopyOrder))
    IN [VertexBufferCPU |-> [k \in 1 .. total |->
                                IF k <= Len(writes) THEN writes[k] ELSE Unset],
        IndexBufferCPU  |-> ConcatIndices(meshes, Len(IndexInsertOrder)),
        DrawArgs        |-> [n \in MeshSet |->
                                Submesh(meshes, CHOOSE j \in DOMAIN OffsetOrder :
                                                    OffsetOrder[j] = n)],
        CursorK         |-> Len(writes),
        Overrun         |-> Len(writes) > total]

\* ------------------------------------------------------ BuildRenderItems
\* lines 834-1150: the grid first, then AddItem(key, world) for the castle
SceneKeys == <<"box", "cylinder", "cone", "diamond", "torus", "wedge">>
ItemKey(k) == IF k = 1 THEN "grid" ELSE SceneKeys[((k - 2) % Len(SceneKeys)) + 1]

\* lines 831-1155: ObjCBIndex = objCBIndex++, NumFramesDirty = gNumFrameResources,
\* the draw range copied from DrawArgs[key]; World is abstracted to the item's
\* position in the scene
BuildRenderItems(geo) ==
    [k \in 1 .. NumRitems |->
        [World              |-> k,
         ObjCBIndex         |-> k - 1,
         NumFramesDirty     |-> gNumFrameResources,
         Geo                |-> "shapeGeo",
         IndexCount         |-> geo.DrawArgs[ItemKey(k)].IndexCount,
         StartIndexLocation |-> geo.DrawArgs[ItemKey(k)].StartIndexLocation,
         BaseVertexLocation |-> geo.DrawArgs[ItemKey(k)].BaseVertexLocation]]

\* lines 1153-1154: for (auto& e : mAllRitems) mOpaqueRitems.push_back(e.get())
BuildOpaqueRitems(ritems) == [k \in DOMAIN ritems |-> k]

\* -------------------------------------------------- descriptor heap layout
\* line 422
NumDescriptors(objCount) == (objCount + 1) * gNumFrameResources
\* line 425
PassCbvOffset(objCount) == objCount * gNumFrameResources
\* line 454: BuildConstantBufferViews, object views
ObjHeapIndex(frameIndex, objCount, i) == frameIndex * objCount + i
\* line 475: BuildConstantBufferViews, pass views
PassHeapIndex(passOffset, frameIndex) == passOffset + frameIndex
\* line 1186: DrawRenderItems
DrawCbvIndex_Interleaved(frameIndex, objCount, objCBIndex) ==
    objCBIndex * gNumFrameResources + frameIndex
DrawCbvIndex(frameIndex, objCount, objCBIndex) == frameIndex * objCount + objCBIndex
\* line 266: Draw
PassCbvIndex(passOffset, frameIndex) == passOffset + frameIndex

\* lines 436-485: the views created, by heap index; a view created outside
\* 0 .. NumDescriptors - 1 is outside the heap (Overrun)
BuildConstantBufferViews(objCount, passOffset, numDescriptors) ==
    LET objViews  == {[at |-> ObjHeapIndex(f, objCount, i),
                       view |-> [kind |-> "obj", frame |-> f, elem |-> i]] :
                          f \in 0 .. gNumFrameResources - 1, i \in 0 .. objCount - 1}
        passViews == {[at |-> PassHeapIndex(passOffset, f),
                       view |-> [kind |-> "pass", frame |-> f, elem |-> 0]] :
                          f \in 0 .. gNumFrameResources - 1}
        all       == objViews \cup passViews
    IN [NumDescriptors |-> numDescriptors,
        Views   |-> [h \in 0 .. numDescriptors - 1 |->
                        {c.view : c \in {d \in all : d.at = h}}],
        Overrun |-> \E c \in all : c.at \notin 0 .. numDescriptors - 1]

\* OnKeyboardInput, lines 344-347: GetAsyncKeyState('1') & 0x8000
OnKeyboardInput_Sticky(keyState) == mIsWireframe \/ (keyState \div 32768) % 2 = 1
OnKeyboardInput(keyState) == (keyState \div 32768) % 2 = 1
KeyStates == {0, 1, 32768, 32769}

\* RenderItem, line 373: if (e->NumFramesDirty > 0)
IsDirty_Always(e) == TRUE
IsDirty(e) == e.NumFramesDirty > 0
\* RenderItem, line 383: e->NumFramesDirty--
DecrementDirty_ResetsWorld(e) == [e EXCEPT !.NumFramesDirty = @ - 1, !.World = 0]
DecrementDirty(e) == [e EXCEPT !.NumFramesDirty = @ - 1]

\* OnMouseMove, lines 312 and 325: which branch runs
LeftDown(btnState) == (btnState \div MK_LBUTTON) % 2 = 1
ZoomApplies_NoElse(btnState) == (btnState \div MK_RBUTTON) % 2 = 1
ZoomApplies(btnState) == ~LeftDown(btnState) /\ (btnState \div MK_RBUTTON) % 2 = 1

\* Update, line 211
NextIndex_Stuck(i) == (i + 1) % (gNumFrameResources - 1)
NextFrameResourceIndex(i) == (i + 1) % gNumFrameResources

\* Update, line 216: the test that decides whether Update waits
NeedsWait_Never(fence, done) == FALSE
NeedsWait_Flush(fence, done) == done < mCurrentFence
NeedsWait(fence, done) == fence # 0 /\ done < fence

\* Update, lines 219-220: the event set by SetEventOnCompletion(fence, event)
\* is signalled once the fence has reached the value; the wait is INFINITE.
EventSignalled_Timeout(fence, done) == TRUE
EventSignalled_AfterLatest(fence, done) == done > mCurrentFence
EventSignalled(fence, done) == done >= fence

\* frames whose fence value the completed value v has not reached
Unreached(fs, v) == {f \in fs : f.fence = 0 \/ f.fence > v}

\* MathHelper::Clamp
Clamp(x, low, high) == IF x < low THEN low ELSE IF x > high THEN high ELSE x

\* OnMouseMove, lines 316-323
PhiAfterOrbit_NoClamp(phi, dyPixels) == phi + dyPixels * PixelAngle
PhiAfterOrbit(phi, dyPixels) == Clamp(phi + dyPixels * PixelAngle, PhiMin, PhiMax)

\* OnMouseMove, lines 328-335 (0.05f * pixels is one radius unit per pixel)
RadiusAfterZoom_NoClamp(radius, dxPixels, dyPixels) == radius + (dxPixels - dyPixels)
RadiusAfterZoom(radius, dxPixels, dyPixels) ==
    Clamp(radius + (dxPixels - dyPixels), RadiusMin, RadiusMax)

ThetaInit == (3 * Pi) \div 2
Abs(x) == IF x < 0 THEN -x ELSE x

\* ---------------------------------------------------------------- initial
InitBase ==
    /\ pc = "start"
    /\ mFrameResources = <<>>
    /\ mCurrFrameResource = -1
    /\ mCurrFrameResourceIndex = 0
    /\ mCurrentFence \in 0 .. MaxInitFence
    /\ mIsWireframe = FALSE
    /\ mAllRitems = <<>>
    /\ mCommandList = [slot |-> -1, wire |-> FALSE, passCbvIndex |-> -1, draws |-> <<>>]
    /\ queue = <<>>
    /\ completed = mCurrentFence
    /\ gpuLost = FALSE
    /\ frames = {}
    /\ frameCount = 0
    /\ updateCount = 0
    /\ selHist = <<>>
    /\ stamps = {}
    /\ apiFailed = FALSE
    /\ raised = FALSE
    /\ msgBoxes = 0
    /\ exitCode = -1
    /\ mTheta = ThetaInit
    /\ mPhi = (2 * Pi) \div 10
    /\ mRadius = 15 * RadiusScale
    /\ mLastMousePos \in MouseCoords \X MouseCoords   \* POINT left uninitialised
    /\ keyPolled = 0
    /\ submits = <<>>
    /\ evt = [kind |-> "none", btn |-> 0, x |-> 0, y |-> 0]
    /\ mGeometries = <<>>
    /\ mOpaqueRitems = <<>>
    /\ mCbvHeap = <<>>
    /\ mPassCbvOffset = 0

\* the whole program, generated meshes of mixed sizes
Init == InitBase /\ meshData = SampleMeshData

\* the geometry builder alone, over every combination of mesh sizes
InitGeo ==
    /\ InitBase
    /\ mCurrentFence = 0
    /\ mLastMousePos = <<0, 0>>
    /\ meshData \in AllMeshData

\* ThrowIfFailed on a failed HRESULT: a DxException leaves the function
Throw ==
    /\ pc' = "throw"
    /\ apiFailed' = TRUE
    /\ raised' = TRUE
    /\ UNCHANGED <<msgBoxes, exitCode>>

\* D3DApp::FlushCommandQueue: advance the fence, signal it on the queue and
\* block until the GPU has reached it (the GPU has drained the queue)
FlushCommandQueue ==
    /\ queue = <<>>
    /\ ~gpuLost
    /\ mCurrentFence' = mCurrentFence + 1
    /\ completed' = mCurrentFence + 1
    /\ frames' = Unreached(frames, completed')
    /\ UNCHANGED <<queue, gpuLost>>

\* ------------------------------------------------------------- Initialize
\* D3DApp::Initialize returns false
InitializeFalse ==
    /\ pc = "start"
    /\ pc' = "quit"
    /\ UNCHANGED <<frameVars, gpuVars, obsVars, errVars, camVars, sceneVars>>

\* lines 176-183, in the order of the calls: BuildShapeGeometry,
\* BuildRenderItems, BuildFrameResources, BuildDescriptorHeaps,
\* BuildConstantBufferViews
BuildScene_FrameResourcesFirst ==
    /\ mFrameResources' = BuildFrameResources(Len(mAllRitems))
    /\ mGeometries' = BuildShapeGeometry(meshData)
    /\ mAllRitems' = BuildRenderItems(mGeometries')
    /\ mOpaqueRitems' = BuildOpaqueRitems(mAllRitems')
    /\ mPassCbvOffset' = PassCbvOffset(Len(mOpaqueRitems'))
    /\ mCbvHeap' = BuildConstantBufferViews(Len(mOpaqueRitems'), mPassCbvOffset',
                                            NumDescriptors(Len(mOpaqueRitems')))
    /\ UNCHANGED meshData
BuildScene ==
    /\ mGeometries' = BuildShapeGeometry(meshData)
    /\ mAllRitems' = BuildRenderItems(mGeometries')
    /\ mOpaqueRitems' = BuildOpaqueRitems(mAllRitems')
    /\ mFrameResources' = BuildFrameResources(Len(mAllRitems'))
    /\ mPassCbvOffset' = PassCbvOffset(Len(mOpaqueRitems'))
    /\ mCbvHeap' = BuildConstantBufferViews(Len(mOpaqueRitems'), mPassCbvOffset',
                                            NumDescriptors(Len(mOpaqueRitems')))
    /\ UNCHANGED meshData

\* one of the ThrowIfFailed calls of Initialize or of the Build* functions fails
InitializeThrow ==
    /\ pc = "start"
    /\ Throw
    /\ \E built \in BOOLEAN :
          IF built
          THEN BuildScene
          ELSE UNCHANGED <<mAllRitems, mFrameResources, sceneVars>>
    /\ UNCHANGED <<mCurrFrameResource, mCurrFrameResourceIndex, mCurrentFence,
                   mIsWireframe, mCommandList, gpuVars, obsVars, camVars>>

\* Initialize succeeds: the scene is built, then FlushCommandQueue
\* (advance the fence, signal it, wait for the GPU to reach it)
InitializeOk ==
    /\ pc = "start"
    /\ BuildScene
    /\ FlushCommandQueue
    /\ pc' = "loop"
    /\ UNCHANGED <<mCurrFrameResource, mCurrFrameResourceIndex, mIsWireframe,
                   mCommandList, frameCount, updateCount, selHist, stamps,
                   keyPolled, submits, errVars, camVars>>

\* ----------------------------------------------------------------- Update
\* lines 207-216: poll the keyboard, advance the ring, test the slot's fence
UpdateBegin ==
    /\ pc = "loop"
    /\ updateCount < MaxFrames
    /\ updateCount' = updateCount + 1
    /\ \E keyState \in KeyStates :
          /\ keyPolled' = keyState
          /\ mIsWireframe' = OnKeyboardInput(keyState)
    /\ mCurrFrameResourceIndex' = NextFrameResourceIndex(mCurrFrameResourceIndex)
    /\ mCurrFrameResource' = mCurrFrameResourceIndex'
    /\ selHist' = IF Len(selHist) < gNumFrameResources
                  THEN Append(selHist, mCurrFrameResourceIndex')
                  ELSE Append(Tail(selHist), mCurrFrameResourceIndex')
    /\ pc' = IF NeedsWait(FR(mCurrFrameResource').Fence, completed)
             THEN "setEvent" ELSE "objCB"
    /\ UNCHANGED <<mFrameResources, mCurrentFence, mAllRitems, mCommandList,
                   gpuVars, frames, frameCount, stamps, submits, errVars,
                   camVars, sceneVars>>

\* line 219: ThrowIfFailed(mFence->SetEventOnCompletion(...))
UpdateSetEvent ==
    /\ pc = "setEvent"
    /\ \E ok \in BOOLEAN :
          IF ok THEN pc' = "wait" /\ UNCHANGED errVars
                ELSE Throw
    /\ UNCHANGED <<frameVars, gpuVars, obsVars, camVars, sceneVars>>

\* line 220: WaitForSingleObject(eventHandle, INFINITE)
UpdateWait ==
    /\ pc = "wait"
    /\ EventSignalled(FR(mCurrFrameResource).Fence, completed)
    /\ pc' = "objCB"
    /\ UNCHANGED <<frameVars, gpuVars, obsVars, errVars, camVars, sceneVars>>

\* lines 366-386
UpdateObjectCBs ==
    /\ pc = "objCB"
    /\ LET dirty == {k \in DOMAIN mAllRitems : IsDirty(mAllRitems[k])}
           cur   == mCurrFrameResource + 1
       IN /\ mFrameResources' =
                [mFrameResources EXCEPT ![cur].ObjectCB =
                    [e \in DOMAIN @ |->
                        @[e] + Cardinality({k \in dirty : mAllRitems[k].ObjCBIndex = e})]]
          /\ mAllRitems' =
                [k \in DOMAIN mAllRitems |->
                    IF k \in dirty
                    THEN DecrementDirty(mAllRitems[k])
                    ELSE mAllRitems[k]]
    /\ pc' = "passCB"
    /\ UNCHANGED <<mCurrFrameResource, mCurrFrameResourceIndex, mCurrentFence,
                   mIsWireframe, mCommandList, gpuVars, obsVars, errVars, camVars, sceneVars>>

\* lines 388-414: the pass constants of this Update (they hold the frame time)
UpdateMainPassCB ==
    /\ pc = "passCB"
    /\ mFrameResources' =
          [mFrameResources EXCEPT ![mCurrFrameResource + 1].PassCB = updateCount]
    /\ pc' = "record"
    /\ UNCHANGED <<mCurrFrameResource, mCurrFrameResourceIndex, mCurrentFence,
                   mIsWireframe, mAllRitems, mCommandList, gpuVars, obsVars,
                   errVars, camVars, sceneVars>>

\* ------------------------------------------------------------------- Draw
\* lines 230-278: reset the allocator and the list, record, close
DrawRecord ==
    /\ pc = "record"
    /\ \E ok \in BOOLEAN :
          IF ok
          THEN /\ mCommandList' =
                    [slot |-> mCurrFrameResourceIndex,
                     wire |-> mIsWireframe,
                     passCbvIndex |-> PassCbvIndex(mPassCbvOffset, mCurrFrameResourceIndex),
                     draws |-> [k \in DOMAIN mOpaqueRitems |->
                                  LET ri == mAllRitems[mOpaqueRitems[k]]
                                  IN [cbvIndex |-> DrawCbvIndex(mCurrFrameResourceIndex,
                                                                Len(mOpaqueRitems),
                                                                ri.ObjCBIndex),
                                      item |-> mOpaqueRitems[k],
                                      IndexCount |-> ri.IndexCount,
                                      StartIndexLocation |-> ri.StartIndexLocation,
                                      BaseVertexLocation |-> ri.BaseVertexLocation]]]
               /\ pc' = "execute"
               /\ UNCHANGED errVars
          ELSE /\ Throw
               /\ UNCHANGED mCommandList
    /\ UNCHANGED <<mFrameResources, mCurrFrameResource, mCurrFrameResourceIndex,
                   mCurrentFence, mIsWireframe, mAllRitems, gpuVars, obsVars, camVars, sceneVars>>

\* lines 281-282: ExecuteCommandLists (returns void)
DrawExecute ==
    /\ pc = "execute"
    /\ frameCount' = frameCount + 1
    /\ queue' = Append(queue, [type |-> "cmd", id |-> frameCount',
                               slot |-> mCommandList.slot,
                               passVer |-> FR(mCommandList.slot).PassCB])
    /\ frames' = frames \cup {[id |-> frameCount', slot |-> mCommandList.slot,
                               fence |-> 0]}
    /\ submits' = Append(submits, [slot |-> mCommandList.slot, fence |-> 0])
    /\ pc' = "present"
    /\ UNCHANGED <<frameVars, completed, gpuLost, updateCount, selHist, stamps,
                   keyPolled, errVars, camVars, sceneVars>>

\* lines 285-286: ThrowIfFailed(mSwapChain->Present(0, 0))
DrawPresent ==
    /\ pc = "present"
    /\ \E ok \in BOOLEAN :
          IF ok THEN pc' = "signal" /\ UNCHANGED errVars
                ELSE Throw
    /\ UNCHANGED <<frameVars, gpuVars, obsVars, camVars, sceneVars>>

\* lines 289-294: stamp the slot, then Signal; the HRESULT of Signal is dropped
DrawSignal ==
    /\ pc = "signal"
    /\ mCurrentFence' = mCurrentFence + 1
    /\ mFrameResources' =
          [mFrameResources EXCEPT ![mCurrFrameResource + 1].Fence = mCurrentFence']
    /\ stamps' = stamps \cup {mCurrentFence'}
    /\ frames' = {IF f.id = frameCount THEN [f EXCEPT !.fence = mCurrentFence']
                                       ELSE f : f \in frames}
    /\ submits' = [submits EXCEPT ![Len(submits)].fence = mCurrentFence']
    /\ \E ok \in BOOLEAN :
          /\ queue' = IF ok
                      THEN Append(queue, [type |-> "sig", val |-> mCurrentFence'])
                      ELSE queue
          /\ apiFailed' = (apiFailed \/ ~ok)
    /\ pc' = "loop"
    /\ UNCHANGED <<mCurrFrameResource, mCurrFrameResourceIndex, mIsWireframe,
                   mAllRitems, mCommandList, completed, gpuLost, frameCount,
                   updateCount, selHist, keyPolled, raised, msgBoxes, exitCode,
                   camVars, sceneVars>>

\* -------------------------------------------------------------------- GPU
\* the GPU finishes the command list at the head of the queue
GpuExecute ==
    /\ ~gpuLost
    /\ queue # <<>>
    /\ Head(queue).type = "cmd"
    /\ queue' = Tail(queue)
    /\ UNCHANGED <<pc, frameVars, completed, gpuLost, obsVars, errVars, camVars, sceneVars>>

\* the GPU reaches a Signal: the fence takes the signalled value
GpuSignal ==
    /\ ~gpuLost
    /\ queue # <<>>
    /\ Head(queue).type = "sig"
    /\ completed' = Head(queue).val
    /\ queue' = Tail(queue)
    /\ frames' = Unreached(frames, completed')
    /\ UNCHANGED <<pc, frameVars, gpuLost, frameCount, updateCount, selHist,
                   stamps, keyPolled, submits, errVars, camVars, sceneVars>>

\* the GPU hangs or the device is removed: nothing more is executed
DeviceLost ==
    /\ ~gpuLost
    /\ pc # "exited"
    /\ gpuLost' = TRUE
    /\ UNCHANGED <<pc, frameVars, queue, completed, obsVars, errVars, camVars, sceneVars>>

\* ----------------------------------------------------- leaving the program
\* the message loop of Run sees WM_QUIT and Run returns
RunQuit ==
    /\ pc = "loop"
    /\ pc' = "quit"
    /\ UNCHANGED <<frameVars, gpuVars, obsVars, errVars, camVars, sceneVars>>

\* lines 162-166: theApp leaves scope (return, or unwinding of a DxException)
ShapesAppDtor ==
    /\ pc \in {"throw", "quit"}
    /\ \/ FlushCommandQueue
       \/ /\ mAllRitems = <<>>             \* md3dDevice == nullptr
          /\ frameCount = 0
          /\ UNCHANGED <<mCurrentFence, completed, frames, queue, gpuLost>>
    /\ pc' = IF pc = "throw" THEN "caught" ELSE "exited"
    /\ exitCode' = IF pc = "throw" THEN exitCode ELSE 0
    /\ UNCHANGED <<mFrameResources, mCurrFrameResource, mCurrFrameResourceIndex,
                   mIsWireframe, mAllRitems, mCommandList,
                   frameCount, updateCount, selHist, stamps, keyPolled, submits,
                   apiFailed, raised, msgBoxes, camVars, sceneVars>>

\* lines 150-154: catch (DxException&) { MessageBox(...); return 0; }
WinMainCatch_Retry ==
    /\ pc = "caught"
    /\ Len(mFrameResources) = gNumFrameResources
    /\ msgBoxes' = msgBoxes + 1
    /\ pc' = "loop"
    /\ UNCHANGED <<frameVars, gpuVars, obsVars, apiFailed, raised, exitCode, camVars, sceneVars>>
WinMainCatch ==
    /\ pc = "caught"
    /\ msgBoxes' = msgBoxes + 1
    /\ exitCode' = 0
    /\ pc' = "exited"
    /\ UNCHANGED <<frameVars, gpuVars, obsVars, apiFailed, raised, camVars, sceneVars>>

\* ------------------------------------------------------------------ mouse
\* lines 297-303
OnMouseDown ==
    /\ pc = "loop"
    /\ \E x \in MouseCoords, y \in MouseCoords :
          /\ mLastMousePos' = <<x, y>>
          /\ evt' = [kind |-> "down", btn |-> 0, x |-> x, y |-> y]   \* btnState is not read
    /\ UNCHANGED <<pc, frameVars, gpuVars, obsVars, errVars, mTheta, mPhi, mRadius,
                   sceneVars>>

\* lines 310-340
OnMouseMove ==
    /\ pc = "loop"
    /\ \E btnState \in 0 .. 3, x \in MouseCoords, y \in MouseCoords :
          LET dxPixels == x - mLastMousePos[1]
              dyPixels == y - mLastMousePos[2]
          IN /\ IF LeftDown(btnState)
                THEN /\ mTheta' = mTheta + dxPixels * PixelAngle
                     /\ mPhi' = PhiAfterOrbit(mPhi, dyPixels)
                ELSE UNCHANGED <<mTheta, mPhi>>
             /\ IF ZoomApplies(btnState)
                THEN mRadius' = RadiusAfterZoom(mRadius, dxPixels, dyPixels)
                ELSE UNCHANGED mRadius
             /\ Abs(mTheta' - ThetaInit) <= MaxThetaDrift * MouseStep * PixelAngle
             /\ mLastMousePos' = <<x, y>>
             /\ evt' = [kind |-> "move", btn |-> btnState, x |-> x, y |-> y]
    /\ UNCHANGED <<pc, frameVars, gpuVars, obsVars, errVars, sceneVars>>

\* ------------------------------------------------------------------ specs
Initialize == InitializeFalse \/ InitializeThrow \/ InitializeOk
Update == UpdateBegin \/ UpdateSetEvent \/ UpdateWait \/ UpdateObjectCBs \/ UpdateMainPassCB
Draw == DrawRecord \/ DrawExecute \/ DrawPresent \/ DrawSignal
Gpu == GpuExecute \/ GpuSignal \/ DeviceLost

Next == Initialize \/ Update \/ Draw \/ Gpu \/ RunQuit \/ ShapesAppDtor \/ WinMainCatch
Spec == Init /\ [][Next]_vars

NextCamera == InitializeOk \/ OnMouseDown \/ OnMouseMove
InitCamera == Init /\ mCurrentFence = 0
SpecCamera == InitCamera /\ [][NextCamera]_vars

\* the message loop with input: the frames of Spec without failures, and a
\* mouse message handled between two frames
MouseEvent == evt.kind = "none" /\ (OnMouseDown \/ OnMouseMove)
NextEvents == InitializeOk \/ Update \/ Draw \/ GpuExecute \/ GpuSignal \/ MouseEvent
SpecEvents == InitCamera /\ [][NextEvents]_vars

\* the Update/Draw loop when no API call fails and the GPU keeps running:
\* the failing outcome of each call is left out, the device is never lost
\* and WM_QUIT does not arrive
UpdateSetEventOk == UpdateSetEvent /\ ~apiFailed'
DrawRecordOk == DrawRecord /\ ~apiFailed'
DrawPresentOk == DrawPresent /\ ~apiFailed'
DrawSignalOk == DrawSignal /\ ~apiFailed'
CpuLive ==
    \/ InitializeOk
    \/ UpdateBegin \/ UpdateSetEventOk \/ UpdateWait \/ UpdateObjectCBs
    \/ UpdateMainPassCB
    \/ DrawRecordOk \/ DrawExecute \/ DrawPresentOk \/ DrawSignalOk
NextLive == CpuLive \/ GpuExecute \/ GpuSignal
\* the CPU thread keeps running (Run calls Update and Draw whenever no
\* message is pending, and WaitForSingleObject returns once the event is
\* set); the GPU eventually executes whatever is at the head of the queue
SpecLive ==
    /\ Init /\ [][NextLive]_vars
    /\ WF_vars(CpuLive) /\ WF_vars(GpuExecute) /\ WF_vars(GpuSignal)

NextGeo == InitializeOk
SpecGeo == InitGeo /\ [][NextGeo]_vars

\* ================================================================ claims
InUpdateWrite == pc \in {"objCB", "passCB"}
InDraw == pc \in {"record", "execute", "present", "signal"}
Running == pc \in {"loop", "setEvent", "wait"} \/ InUpdateWrite \/ InDraw
Built == Len(mFrameResources) = gNumFrameResources
CurFence == FR(mCurrFrameResource).Fence
InFlight(i) == {f \in frames : f.slot = i}
CBWritten(i) ==
    /\ Built /\ Len(mFrameResources') = gNumFrameResources
    /\ \/ mFrameResources'[i + 1].PassCB # mFrameResources[i + 1].PassCB
       \/ mFrameResources'[i + 1].ObjectCB # mFrameResources[i + 1].ObjectCB
Stamped(i) ==
    /\ Built /\ Len(mFrameResources') = gNumFrameResources
    /\ mFrameResources'[i + 1].Fence # mFrameResources[i + 1].Fence

\* C1: whenever Update is past its wait and writes the constant buffers of
\* the selected slot, the completed fence value is at least the fence value
\* stamped on that slot by the last Draw that submitted it (0 if never).
C1_ReuseAfterFence == InUpdateWrite => completed >= CurFence
\* a slot that was submitted before is being rewritten after a real wait
C1_Witness == pc = "objCB" /\ CurFence > 0 /\ updateCount > gNumFrameResources
                /\ queue # <<>>

\* C2: the CPU writes the object or pass constant buffer of slot i only when
\* no submitted frame on slot i has an unreached fence value, and a command
\* list still in the queue finds the pass constants it was submitted with.
C2_NoWriteWhileInFlight ==
    /\ [](\A k \in DOMAIN queue :
            queue[k].type = "cmd" => FR(queue[k].slot).PassCB = queue[k].passVer)
    /\ [][\A i \in Slots : CBWritten(i) => InFlight(i) = {}]_vars
\* the pass constants of a reused slot were just rewritten while other frames
\* are still in flight
C2_Witness == pc = "record" /\ CurFence > 0 /\ frames # {}
                /\ FR(mCurrFrameResource).PassCB = updateCount

\* C3: at most gNumFrameResources frames are submitted and not yet reached
\* by the GPU fence.
C3_AtMostNInFlight == Cardinality(frames) <= gNumFrameResources
C3_Witness == Cardinality(frames) = gNumFrameResources /\ pc = "loop"

\* C4: every Draw stamps its slot with a value above every earlier stamp and
\* enqueues, after the frame's command list, a Signal with exactly that value;
\* a command list still queued belongs to a frame whose stamp is not reached.
C4_StampAndSignal ==
    /\ [](\A k \in DOMAIN queue : queue[k].type = "cmd" =>
            \E f \in frames : f.id = queue[k].id)
    /\ [][\A i \in Slots : Stamped(i) =>
            /\ \A s \in stamps : mFrameResources'[i + 1].Fence > s
            /\ queue' # <<>>
            /\ Last(queue') = [type |-> "sig", val |-> mFrameResources'[i + 1].Fence]
         ]_vars

\* C5: an Update whose selected slot has a reached (or no) fence value goes
\* straight to writing the constants, whatever is in flight on other slots.
C5_NoWaitWhenOwnFenceReached ==
    [][(pc = "loop" /\ updateCount' # updateCount
          /\ completed >= mFrameResources[mCurrFrameResourceIndex' + 1].Fence)
       => pc' = "objCB"]_vars
\* the CPU writes a reused slot while the frames of both other slots are in flight
C5_Witness ==
    /\ InUpdateWrite /\ CurFence > 0
    /\ \A i \in Slots \ {mCurrFrameResource} :
          \E f \in frames : f.slot = i /\ f.fence > completed

\* C6: once built there are exactly gNumFrameResources frame resources, for
\* good; each Update selects (index + 1) mod 3, three consecutive Updates
\* select every slot once, and Draw uses the slot the last Update selected.
C6_RingRoundRobin ==
    /\ [](Running => Built)
    /\ [](Len(selHist) = gNumFrameResources =>
            {selHist[k] : k \in DOMAIN selHist} = Slots)
    /\ []((InUpdateWrite \/ InDraw) =>
            /\ mCurrFrameResource = Last(selHist)
            /\ mCurrFrameResourceIndex = Last(selHist))
    /\ [](pc \in {"execute", "present"} => mCommandList.slot = Last(selHist))
    /\ [][Built => Len(mFrameResources') = gNumFrameResources]_vars
    /\ [][updateCount' # updateCount =>
            mCurrFrameResourceIndex' = (mCurrFrameResourceIndex + 1) % gNumFrameResources]_vars
C6_Witness == pc = "present" /\ Len(selHist) = gNumFrameResources
                /\ updateCount > gNumFrameResources

C8_EveryFailureRaises == apiFailed => raised

\* C9: a raised DxException is fatal: the thread only unwinds, WinMain shows
\* one message box and returns 0; no Update or Draw step runs and no frame is
\* submitted after the throw.
C9_RaisedIsFatal ==
    /\ [](raised => pc \in {"throw", "caught", "exited"})
    /\ [](msgBoxes <= 1)
    /\ []((raised /\ pc = "exited") => (msgBoxes = 1 /\ exitCode = 0))
    /\ [][raised =>
            /\ UNCHANGED <<mFrameResources, mAllRitems, frameCount, updateCount>>
            /\ Len(queue') <= Len(queue)]_vars
C9_Witness == raised /\ pc = "exited" /\ frameCount > 0 /\ msgBoxes = 1

\* C10 (as written): phi stays inside the open interval (0.1, pi - 0.1) and
\* the radius inside [5, 150].
C10_PhiOpenInterval ==
    /\ PhiMin < mPhi /\ mPhi < PhiMax
    /\ RadiusMin <= mRadius /\ mRadius <= RadiusMax
\* C10 (amended): phi stays inside the closed interval [0.1, pi - 0.1] and
\* the radius inside [5, 150]; the bounds themselves are attained.
C10_CameraClamped ==
    /\ PhiMin <= mPhi /\ mPhi <= PhiMax
    /\ RadiusMin <= mRadius /\ mRadius <= RadiusMax
C10_Witness == mPhi = PhiMin /\ mRadius = RadiusMin

\* the '1' key was down at the poll: the most significant bit of the SHORT
\* returned by GetAsyncKeyState
KeyDown(keyState) == keyState >= 32768

\* C11: the wireframe flag always equals the key state seen by the latest
\* poll, and the pipeline state recorded by a Draw is the wireframe one if and
\* only if the '1' key was down when the Update just before it polled the
\* keyboard, whatever the earlier frames used.
C11_WireframeFollowsLastPoll ==
    /\ mIsWireframe = KeyDown(keyPolled)
    /\ pc \in {"execute", "present", "signal"} => mCommandList.wire = KeyDown(keyPolled)
\* the previous frame was recorded in wireframe, the key is up at this poll
\* (only the pressed-since-last-call bit is set) and the flag is cleared
C11_Witness ==
    /\ pc = "record" /\ frameCount > 0
    /\ mCommandList.wire /\ keyPolled = 1 /\ ~mIsWireframe

\* Initialize has built the scene
SceneBuilt == mAllRitems # <<>>
LastMesh == MeshNames[Len(MeshNames)]
\* the sum of f[n] over the names in S
RECURSIVE SumOver(_, _)
SumOver(f, S) ==
    IF S = {} THEN 0
    ELSE LET n == CHOOSE m \in S : TRUE IN f[n] + SumOver(f, S \ {n})
VertexCounts == [n \in MeshSet |-> meshData[n].nv]
IndexCounts == [n \in MeshSet |-> meshData[n].ni]

\* C12: for any vertex counts of the ten meshes, the copy loops write exactly
\* as many vertices as the shared array was declared with: the cursor k ends
\* at the array's length, which is the sum of the ten vertex counts; no write
\* falls outside the array, every slot holds a copied vertex, no source
\* vertex lands in two slots, and the last mesh's vertex offset plus its
\* vertex count is the total.
C12_VertexCopyFillsArray ==
    SceneBuilt =>
        LET vb == mGeometries.VertexBufferCPU IN
        /\ Len(vb) = SumOver(VertexCounts, MeshSet)
        /\ mGeometries.CursorK = Len(vb)
        /\ ~mGeometries.Overrun
        /\ \A k \in DOMAIN vb : vb[k] # Unset
        /\ \A k1, k2 \in DOMAIN vb : vb[k1] = vb[k2] => k1 = k2
        /\ mGeometries.DrawArgs[LastMesh].BaseVertexLocation + meshData[LastMesh].nv
              = Len(vb)
\* the geometry is built from meshes of different vertex counts
C12_Witness ==
    /\ pc = "loop" /\ SceneBuilt
    /\ meshData["box"].nv < meshData["grid"].nv
    /\ meshData[LastMesh].nv > meshData["diamond"].nv
    /\ mGeometries.CursorK > 0

\* C13: for every name registered in DrawArgs and for any mesh sizes, the
\* draw range lies inside the shared buffers: StartIndexLocation + IndexCount
\* is at most the number of indices and BaseVertexLocation + the mesh's
\* vertex count is at most the number of vertices.
C13_DrawRangesInBounds ==
    SceneBuilt =>
        \A n \in MeshSet :
            LET sub == mGeometries.DrawArgs[n] IN
            /\ sub.StartIndexLocation + sub.IndexCount <= Len(mGeometries.IndexBufferCPU)
            /\ sub.BaseVertexLocation + meshData[n].nv <= Len(mGeometries.VertexBufferCPU)
\* the last range ends exactly at the end of the index buffer, and the last
\* mesh is larger than the first
C13_Witness ==
    /\ pc = "loop" /\ SceneBuilt
    /\ meshData[LastMesh].ni > meshData["box"].ni
    /\ mGeometries.DrawArgs[LastMesh].StartIndexLocation
          + mGeometries.DrawArgs[LastMesh].IndexCount = Len(mGeometries.IndexBufferCPU)

\* the fields of a render item that BuildRenderItems sets for good
FixedFields(e) ==
    <<e.World, e.ObjCBIndex, e.Geo, e.IndexCount, e.StartIndexLocation,
      e.BaseVertexLocation>>

\* C14: render items are created once, by Initialize; afterwards, across
\* Update, Draw, keyboard polls and mouse messages, the set of render items
\* and each item's World, ObjCBIndex, Geo, IndexCount, StartIndexLocation and
\* BaseVertexLocation never change, and any change of a render item is a
\* change of NumFramesDirty made by the UpdateObjectCBs step.
C14_RenderItemsImmutable ==
    /\ [][(~SceneBuilt /\ SceneBuilt') => pc = "start"]_vars
    /\ [][SceneBuilt =>
            /\ DOMAIN mAllRitems' = DOMAIN mAllRitems
            /\ mOpaqueRitems' = mOpaqueRitems
            /\ \A k \in DOMAIN mAllRitems :
                  FixedFields(mAllRitems'[k]) = FixedFields(mAllRitems[k])
            /\ mAllRitems' # mAllRitems => pc = "objCB" /\ pc' = "passCB"]_vars
\* after three frames and a mouse drag that turned the camera, the items are
\* clean and otherwise as built
C14_Witness ==
    /\ pc = "loop" /\ frameCount >= gNumFrameResources
    /\ evt.kind = "move" /\ mTheta # ThetaInit
    /\ \A k \in DOMAIN mAllRitems : mAllRitems[k].NumFramesDirty = 0

\* C15: OnMouseMove maps the buttons to the camera exclusively: with the left
\* button down the radius is unchanged, also when the right button is down
\* too; with only the right button down theta and phi are unchanged; with
\* neither down theta, phi and the radius are unchanged; and after every
\* mouse message the last mouse position is the position of the message.
C15_ButtonsExclusive ==
    /\ [](evt.kind # "none" => mLastMousePos = <<evt.x, evt.y>>)
    /\ [][evt'.kind = "move" =>
            LET left  == (evt'.btn \div MK_LBUTTON) % 2 = 1
                right == (evt'.btn \div MK_RBUTTON) % 2 = 1
            IN /\ left => mRadius' = mRadius
               /\ (~left /\ right) => (mTheta' = mTheta /\ mPhi' = mPhi)
               /\ (~left /\ ~right) =>
                     (mTheta' = mTheta /\ mPhi' = mPhi /\ mRadius' = mRadius)
               /\ mLastMousePos' = <<evt'.x, evt'.y>>]_vars
\* a drag with both buttons down has turned the camera; the radius is still
\* the initial one
C15_Witness ==
    /\ evt.kind = "move" /\ evt.btn = MK_LBUTTON + MK_RBUTTON
    /\ mTheta # ThetaInit /\ mPhi # (2 * Pi) \div 10
    /\ mRadius = 15 * RadiusScale

\* the number of UpdateObjectCBs calls made so far, while the loop runs
ObjCBUpdates == IF pc \in {"setEvent", "wait", "objCB"} THEN updateCount - 1
                                                         ELSE updateCount
\* the slot the j-th Update selects (the index starts at 0 and is advanced
\* before it is used)
SlotOfUpdate(j) == j % gNumFrameResources
AllObjectsWritten(i) ==
    \A e \in DOMAIN FR(i).ObjectCB : FR(i).ObjectCB[e] = 1
NoObjectWritten(i) ==
    \A e \in DOMAIN FR(i).ObjectCB : FR(i).ObjectCB[e] = 0

\* C16: every render item's NumFramesDirty starts at gNumFrameResources,
\* stays in 0..gNumFrameResources and goes down by one per Update until it
\* is 0, where it stays; no element of an object constant buffer is written
\* twice; slot i holds every item's constants from the first Update that
\* selects it on, and not before; so a Draw always finds the object constants
\* of its slot written.
C16_ObjectConstantsWrittenOnce ==
    /\ [](SceneBuilt /\ Built =>
            /\ \A k \in DOMAIN mAllRitems :
                  mAllRitems[k].NumFramesDirty \in 0 .. gNumFrameResources
            /\ \A i \in Slots : \A e \in DOMAIN FR(i).ObjectCB : FR(i).ObjectCB[e] <= 1
            /\ Running =>
                  /\ \A k \in DOMAIN mAllRitems :
                        mAllRitems[k].NumFramesDirty =
                           IF ObjCBUpdates >= gNumFrameResources THEN 0
                           ELSE gNumFrameResources - ObjCBUpdates
                  /\ \A i \in Slots :
                        IF \E j \in 1 .. ObjCBUpdates : SlotOfUpdate(j) = i
                        THEN AllObjectsWritten(i) ELSE NoObjectWritten(i)
            /\ InDraw => AllObjectsWritten(mCurrFrameResource))
    /\ [][pc = "objCB" /\ pc' = "passCB" =>
            \A k \in DOMAIN mAllRitems :
                mAllRitems'[k].NumFramesDirty =
                    IF mAllRitems[k].NumFramesDirty > 0
                    THEN mAllRitems[k].NumFramesDirty - 1 ELSE 0]_vars
\* the Draw of the fourth frame reuses a slot: nothing was written by its
\* Update, every item is clean, every slot was written once
C16_Witness ==
    /\ pc = "record" /\ updateCount = gNumFrameResources + 1
    /\ \A k \in DOMAIN mAllRitems : mAllRitems[k].NumFramesDirty = 0
    /\ \A i \in Slots : AllObjectsWritten(i)

ObjView(f, e) == [kind |-> "obj", frame |-> f, elem |-> e]
PassView(f) == [kind |-> "pass", frame |-> f, elem |-> 0]

\* C17: with n render items the heap has (n + 1) * gNumFrameResources
\* descriptors and every view is created inside it, no two at one index; for
\* every slot f and render item the index f * n + ObjCBIndex lies in [0, 3n)
\* and holds the view of slot f's object constants of that item, and 3n + f
\* lies in [3n, 3n + 3) and holds the view of slot f's pass constants; the
\* indices a recorded Draw binds are these, for the slot it was recorded on.
C17_HeapIndexingConsistent ==
    SceneBuilt =>
        LET n     == Len(mOpaqueRitems)
            views == mCbvHeap.Views
        IN /\ mCbvHeap.NumDescriptors = (n + 1) * gNumFrameResources
           /\ DOMAIN views = 0 .. (n + 1) * gNumFrameResources - 1
           /\ ~mCbvHeap.Overrun
           /\ \A h \in DOMAIN views : Cardinality(views[h]) <= 1
           /\ \A f \in Slots :
                 /\ \A k \in DOMAIN mAllRitems :
                       LET h == f * n + mAllRitems[k].ObjCBIndex IN
                       /\ 0 <= h /\ h < gNumFrameResources * n
                       /\ views[h] = {ObjView(f, mAllRitems[k].ObjCBIndex)}
                 /\ LET h == gNumFrameResources * n + f IN
                       /\ h < gNumFrameResources * n + gNumFrameResources
                       /\ views[h] = {PassView(f)}
           /\ pc \in {"execute", "present", "signal"} =>
                 /\ Len(mCommandList.draws) = n
                 /\ \A k \in DOMAIN mCommandList.draws :
                       LET d == mCommandList.draws[k] IN
                       /\ d.cbvIndex = mCommandList.slot * n + mAllRitems[d.item].ObjCBIndex
                       /\ views[d.cbvIndex] =
                             {ObjView(mCurrFrameResourceIndex, mAllRitems[d.item].ObjCBIndex)}
                 /\ mCommandList.passCbvIndex = gNumFrameResources * n + mCommandList.slot
                 /\ views[mCommandList.passCbvIndex] = {PassView(mCurrFrameResourceIndex)}
\* a Draw recorded on the last slot binds the last object view of the object
\* range and the last descriptor of the heap
C17_Witness ==
    /\ pc = "present" /\ mCommandList.slot = gNumFrameResources - 1
    /\ Len(mCommandList.draws) > 1
    /\ Last(mCommandList.draws).cbvIndex = gNumFrameResources * Len(mOpaqueRitems) - 1
    /\ mCommandList.passCbvIndex = mCbvHeap.NumDescriptors - 1

\* the command lists recorded with slot i's allocator that the GPU has not
\* finished executing
PendingOn(i) == {k \in DOMAIN queue : queue[k].type = "cmd" /\ queue[k].slot = i}

\* C18: when Draw is about to reset the command allocator of the current
\* slot, the GPU has finished every command list recorded with it.
C18_AllocatorResetWhenIdle ==
    pc = "record" => PendingOn(mCurrFrameResource) = {}
\* the slot was used before and the lists of other slots are still pending
\* when its allocator is reset
C18_Witness ==
    /\ pc = "record" /\ CurFence > 0 /\ updateCount > gNumFrameResources
    /\ \E i \in Slots : PendingOn(i) # {}

\* the names of the meshes appended before the j-th one
Before(j) == {MeshNames[m] : m \in 1 .. j - 1}

\* C19: in the order box, grid, sphere, cylinder, cone, torus, pyramid,
\* wedge, diamond, triPrism each mesh's StartIndexLocation is the sum of the
\* index counts of the meshes before it and its BaseVertexLocation the sum of
\* their vertex counts; each range begins where the previous one ends, the
\* last ones end with the buffers, and a range holds exactly the indices,
\* or the vertices, of its own mesh, in their order; every index of a range
\* refers to a vertex of the same mesh's vertex range.
C19_RangesPartitionBuffers ==
    SceneBuilt =>
        LET ib == mGeometries.IndexBufferCPU
            vb == mGeometries.VertexBufferCPU
        IN /\ Len(ib) = SumOver(IndexCounts, MeshSet)
           /\ Len(vb) = SumOver(VertexCounts, MeshSet)
           /\ \A j \in DOMAIN MeshNames :
                 LET n   == MeshNames[j]
                     sub == mGeometries.DrawArgs[n]
                 IN /\ sub.StartIndexLocation = SumOver(IndexCounts, Before(j))
                    /\ sub.BaseVertexLocation = SumOver(VertexCounts, Before(j))
                    /\ sub.IndexCount = meshData[n].ni
                    /\ j > 1 =>
                          LET prev == mGeometries.DrawArgs[MeshNames[j - 1]] IN
                          /\ sub.StartIndexLocation =
                                prev.StartIndexLocation + prev.IndexCount
                          /\ sub.BaseVertexLocation =
                                prev.BaseVertexLocation + meshData[MeshNames[j - 1]].nv
                    /\ \A i \in 0 .. meshData[n].ni - 1 :
                          LET x == ib[sub.StartIndexLocation + i + 1] IN
                          /\ x.mesh = n /\ x.i = i
                          /\ x.val < meshData[n].nv
                          /\ vb[sub.BaseVertexLocation + x.val + 1].mesh = n
                    /\ \A i \in 0 .. meshData[n].nv - 1 :
                          vb[sub.BaseVertexLocation + i + 1] = [mesh |-> n, i |-> i]
\* cone and torus differ in size and the torus range begins with the first
\* index of the torus
C19_Witness ==
    /\ pc = "loop" /\ SceneBuilt
    /\ meshData["cone"].ni # meshData["torus"].ni
    /\ mGeometries.IndexBufferCPU[mGeometries.DrawArgs["torus"].StartIndexLocation + 1]
          = [mesh |-> "torus", i |-> 0, val |-> 0]

\* slot i was handed to ExecuteCommandLists at least once
Submitted(i) == \E s \in DOMAIN submits : submits[s].slot = i
\* the fence value Draw stamped on slot i last, 0 when it stamped none
LatestStamp(i) ==
    LET S == {s \in DOMAIN submits : submits[s].slot = i /\ submits[s].fence # 0}
    IN IF S = {} THEN 0
       ELSE submits[CHOOSE s \in S : \A t \in S : t <= s].fence

\* C20: every fence value Draw stamps on a slot is at least 1, so when Update
\* tests a slot, Fence # 0 holds for exactly the slots submitted at least
\* once; a slot's Fence is always its latest stamp; the first Update on each
\* slot does not wait, and Update waits exactly when the GPU fence has not
\* reached the latest stamp of the slot it selects.
C20_ZeroMeansNeverSubmitted ==
    /\ [](/\ \A v \in stamps : v >= 1
          /\ Built => \A i \in Slots : FR(i).Fence = LatestStamp(i)
          /\ pc = "loop" => \A i \in Slots : (FR(i).Fence # 0) <=> Submitted(i)
          /\ pc \in {"setEvent", "wait"} =>
                /\ updateCount > gNumFrameResources
                /\ Submitted(mCurrFrameResource))
    /\ [][pc = "loop" /\ pc' \in {"setEvent", "objCB"} =>
            (pc' = "setEvent" <=> completed < LatestStamp(mCurrFrameResource'))]_vars
\* the second Update selects a slot that was never submitted and goes on
\* without waiting although the GPU has not finished the first frame
C20_Witness ==
    /\ pc = "objCB" /\ updateCount = 2
    /\ CurFence = 0 /\ ~Submitted(mCurrFrameResource)
    /\ frames # {} /\ completed < mCurrentFence

\* C21: the scene is built in an order that makes the constant-buffer
\* indexing valid: the render items take their draw ranges from the geometry
\* built before them; their ObjCBIndex values are 0 .. n - 1 in creation
\* order, each used once; every frame resource's object buffer has n
\* elements, so every ObjCBIndex that UpdateObjectCBs writes is inside it;
\* mOpaqueRitems holds each render item exactly once, and a recorded Draw
\* has one indexed draw per render item.
C21_SceneBuiltInOrder ==
    SceneBuilt =>
        LET n == Len(mAllRitems) IN
        /\ \A k \in DOMAIN mAllRitems :
              LET sub == mGeometries.DrawArgs[ItemKey(k)] IN
              /\ mAllRitems[k].ObjCBIndex = k - 1
              /\ mAllRitems[k].IndexCount = sub.IndexCount
              /\ mAllRitems[k].IndexCount > 0
              /\ mAllRitems[k].StartIndexLocation = sub.StartIndexLocation
              /\ mAllRitems[k].BaseVertexLocation = sub.BaseVertexLocation
        /\ {mAllRitems[k].ObjCBIndex : k \in DOMAIN mAllRitems} = 0 .. n - 1
        /\ Built
        /\ \A i \in Slots :
              /\ DOMAIN FR(i).ObjectCB = 0 .. n - 1
              /\ \A k \in DOMAIN mAllRitems :
                    mAllRitems[k].ObjCBIndex < Cardinality(DOMAIN FR(i).ObjectCB)
        /\ Len(mOpaqueRitems) = n
        /\ {mOpaqueRitems[k] : k \in DOMAIN mOpaqueRitems} = DOMAIN mAllRitems
        /\ mCbvHeap.NumDescriptors = (n + 1) * gNumFrameResources
        /\ pc \in {"execute", "present", "signal"} =>
              /\ Len(mCommandList.draws) = n
              /\ {mCommandList.draws[k].item : k \in DOMAIN mCommandList.draws}
                    = DOMAIN mAllRitems
\* the first frame is submitted: its Update wrote the last element of the
\* slot's object buffer and its Draw drew every render item
C21_Witness ==
    /\ pc = "present" /\ frameCount = 1
    /\ Len(mCommandList.draws) = NumRitems
    /\ FR(mCurrFrameResource).ObjectCB[Len(mAllRitems) - 1] = 1

\* C22: when no API call fails and the GPU eventually executes every
\* command list and fence signal on the queue, every wait of Update ends and
\* every frame up to the bound is eventually submitted by Draw and stamped:
\* the Update/Draw loop does not get stuck.
C22_LoopMakesProgress ==
    /\ (pc \in {"setEvent", "wait"}) ~> (pc = "objCB")
    /\ \A k \in 1 .. MaxFrames : <>(frameCount >= k)
    /\ <>(pc = "loop" /\ Len(submits) = MaxFrames /\ Last(submits).fence # 0)
\* Update is blocked on the fence of a reused slot while the GPU still has
\* work queued
C22_Witness ==
    /\ pc = "wait" /\ ~gpuLost /\ ~apiFailed
    /\ completed < CurFence /\ queue # <<>>
    /\ updateCount > gNumFrameResources
====
